---- MODULE Spec2Model ----
(***************************************************************************)
(* A model of microstructure_gen (src/microstructure_gen.py): the job      *)
(* list, the params-filename map ("ledger"), its JSON file, the generated  *)
(* MATLAB script, the artifacts the engine leaves in data_dir, and the     *)
(* operations of the class.                                                *)
(*                                                                         *)
(* Python values are modelled by their kind and their text:                *)
(*   [k |-> "int",   t |-> <<"8">>]            the int 8                   *)
(*   [k |-> "float", t |-> <<"1", ".", "5">>]  the float 1.5 (t its repr)  *)
(*   [k |-> "str",   t |-> <<"1", ".", "5">>]  the str "1.5"               *)
(*   [k |-> "none",  t |-> <<>>]               None                        *)
(*   [k |-> "list",  t |-> <<...>>]            a list, t its elements      *)
(* A dict is a function from keys (strings) to values; the key None is the *)
(* reserved string NoneKey.  A float is the record [neg, mag] with mag in  *)
(* units of 1/Scale; the inputs have at most three decimals, where this    *)
(* agrees with float(), int() and repr() of the binary double.             *)
(***************************************************************************)
EXTENDS Integers, Sequences, FiniteSets, TLC

VARIABLES
  jobs,             \* self.jobs
  params_filename,  \* self.params_filename
  order,            \* its keys in the order of the dict (the order of insertion)
  json_file,        \* the ledger file self.json_file
  m_file,           \* the script file m_file
  artifacts,        \* data_dir/<filename>: the MS of each .mat file
  aux,              \* data_dir/VfAfl_<filename>: the VfAfl of each file
  lastOp,           \* the last method called
  outcome,          \* how it ended: "ok", "raised" or what it reported
  engine,           \* how often it called the engine (subprocess.call)
  removed,          \* the keys it deleted from the map
  clean,            \* no call on this instance has raised
  nAdmitted,        \* the admissions of this instance that succeeded
  startup,          \* the map this instance loaded in __init__
  cycled,           \* the leading jobs that a written script has run
  pa, pb,           \* two ParameterSets
  na, nb,           \* and their filenames
  edits             \* the fields changed in pa and pb

vars == <<jobs, params_filename, order, json_file, m_file, artifacts, aux,
          lastOp, outcome, engine, removed, clean, nAdmitted, startup,
          cycled, pa, pb, na, nb, edits>>

progVars == <<jobs, params_filename, order, json_file, m_file, artifacts, aux,
              lastOp, outcome, engine, removed, clean, nAdmitted, startup,
              cycled>>

namerVars == <<pa, pb, na, nb, edits>>

-----------------------------------------------------------------------------
(* Bounds of the model *)

MaxJobs == 2

MaxEdits == 2

-----------------------------------------------------------------------------
(* Python values *)

Scale == 10 * 10 * 10

NoneKey == "<None>"

PyInt(t) == [k |-> "int", t |-> t]

PyFloat(t) == [k |-> "float", t |-> t]

PyStr(t) == [k |-> "str", t |-> t]

PyNone == [k |-> "none", t |-> <<>>]

PyList(t) == [k |-> "list", t |-> t]

Digits == {"0", "1", "2", "3", "4", "5", "6", "7", "8", "9"}

DigitVal(c) ==
  CASE c = "0" -> 0 [] c = "1" -> 1 [] c = "2" -> 2 [] c = "3" -> 3
    [] c = "4" -> 4 [] c = "5" -> 5 [] c = "6" -> 6 [] c = "7" -> 7
    [] c = "8" -> 8 [] c = "9" -> 9

RECURSIVE DigitsVal(_)
DigitsVal(s) ==
  IF s = <<>> THEN 0
  ELSE 10 * DigitsVal(SubSeq(s, 1, Len(s) - 1)) + DigitVal(s[Len(s)])

RECURSIVE StripLeft(_)
StripLeft(s) ==
  IF s # <<>> /\ s[1] = " " THEN StripLeft(Tail(s)) ELSE s

RECURSIVE StripRight(_)
StripRight(s) ==
  IF s # <<>> /\ s[Len(s)] = " " THEN StripRight(SubSeq(s, 1, Len(s) - 1)) ELSE s

Strip(s) == StripLeft(StripRight(s))

\* The digits after the point, as a number of 1/Scale (three digits are kept).
FracDigit(s, i) == IF i <= Len(s) THEN DigitVal(s[i]) ELSE 0

FracVal(s) == 100 * FracDigit(s, 1) + 10 * FracDigit(s, 2) + FracDigit(s, 3)

RaisedFloat == [ok |-> FALSE, neg |-> FALSE, mag |-> 0]

\* The digits before and after the point at dot (Len(body) + 1: no point).
ParseDigits(body, neg, dot) ==
  IF /\ \A i \in 1..Len(body) : i # dot => body[i] \in Digits
     /\ Len(body) >= 1
     /\ ~(dot = 1 /\ Len(body) = 1)
  THEN [ok  |-> TRUE,
        neg |-> neg,
        mag |-> Scale * DigitsVal(SubSeq(body, 1, dot - 1))
                + FracVal(SubSeq(body, dot + 1, Len(body)))]
  ELSE RaisedFloat

ParseBody(body, neg) ==
  ParseDigits(body, neg,
              IF \E i \in 1..Len(body) : body[i] = "."
              THEN CHOOSE i \in 1..Len(body) :
                     body[i] = "." /\ \A j \in 1..(i - 1) : body[j] # "."
              ELSE Len(body) + 1)

ParseSigned(s) ==
  IF s # <<>> /\ s[1] \in {"-", "+"} THEN ParseBody(Tail(s), s[1] = "-")
  ELSE ParseBody(s, FALSE)

\* float(x) of a string: optional blanks, an optional sign, digits with at most
\* one point and at least one digit; anything else raises ValueError.
ParseFloat(t) == ParseSigned(Strip(t))

\* float(x): of an int or a float the number itself, of a str the parsed
\* number, of None or a list a TypeError.
FloatOf(v) ==
  IF v.k \in {"int", "float", "str"} THEN ParseFloat(v.t) ELSE RaisedFloat

\* int(f) of a float: truncation toward zero.
IntOfFloat(f) == IF f.neg THEN 0 - (f.mag \div Scale) ELSE f.mag \div Scale

\* repr of a float, as the f-string writes it: the shortest decimal, with at
\* least one digit after the point.
FormatFrac(d1, d2, d3) ==
  IF d3 # 0 THEN ToString(d1) \o ToString(d2) \o ToString(d3)
  ELSE IF d2 # 0 THEN ToString(d1) \o ToString(d2)
  ELSE ToString(d1)

FormatFloat(f) ==
  (IF f.neg THEN "-" ELSE "") \o ToString(f.mag \div Scale) \o "."
  \o FormatFrac((f.mag % Scale) \div 100, ((f.mag % Scale) \div 10) % 10, f.mag % 10)

FormatInt(n) == ToString(n)

-----------------------------------------------------------------------------
(* The required fields and the namer *)

params == {"ParRu", "ParRv", "pix", "NumAgl", "VfAglm", "VfFree", "scale", "seed"}

IntFields == {"ParRu", "ParRv", "pix", "NumAgl", "scale", "seed"}

FloatFields == {"VfAglm", "VfFree"}

Raised == "<raised>"

IntPartUntruncated(f) == FormatFloat(f)

\* {int(float(x))} and {float(x)} in the f-string.
IntPart(f) == FormatInt(IntOfFloat(f))

FloatPart(f) == FormatFloat(f)

\* The text of field f, or Raised where the lookup or the conversion raises.
PartOf(f, x) ==
  IF ~x.ok THEN Raised ELSE IF f \in IntFields THEN IntPart(x) ELSE FloatPart(x)

Part(p, f) == IF f \notin DOMAIN p THEN Raised ELSE PartOf(f, FloatOf(p[f]))

\* The arguments of the f-string of generate_mat_name, in its order.
Parts(p) ==
  <<Part(p, "ParRu"), Part(p, "ParRv"), Part(p, "pix"), Part(p, "NumAgl"),
    Part(p, "VfAglm"), Part(p, "VfFree"), Part(p, "scale"), Part(p, "seed")>>

MatName(part) ==
  part[1] \o "_" \o part[2] \o "_" \o part[3] \o "_" \o part[4] \o "_"
  \o part[5] \o "_" \o part[6] \o "_" \o part[7] \o "_" \o part[8] \o ".mat"

NameOrRaised(part) ==
  IF \E i \in DOMAIN part : part[i] = Raised THEN Raised ELSE MatName(part)

\* generate_mat_name(params); Raised when a lookup or a conversion raises.
generate_mat_name(p) == NameOrRaised(Parts(p))

-----------------------------------------------------------------------------
(* The ledger file: json.dump and json.load *)

Put(f, key, v) == [x \in DOMAIN f \cup {key} |-> IF x = key THEN v ELSE f[x]]

Without(f, keys) == [x \in DOMAIN f \ keys |-> f[x]]

EmptyMap == [x \in {} |-> 0]

\* json.dump writes the key None as "null"; a str key is written as it is.
JsonKey(key) == IF key = NoneKey THEN "null" ELSE key

\* A number keeps its text, a str becomes a string, None null, a list an array.
JsonValue(v) ==
  CASE v.k \in {"int", "float"} -> [j |-> "number", t |-> v.t]
    [] v.k = "str"  -> [j |-> "string", t |-> v.t]
    [] v.k = "none" -> [j |-> "null", t |-> <<>>]
    [] v.k = "list" -> [j |-> "array", t |-> v.t]

\* The dict is written in insertion order and the reader keeps the last of two
\* equal keys; csv.DictReader inserts the key None last.
JsonObject(p) ==
  [jk \in {JsonKey(key) : key \in DOMAIN p} |->
     JsonValue(IF jk = "null" /\ NoneKey \in DOMAIN p THEN p[NoneKey] ELSE p[jk])]

JsonDump(ledger) == [fn \in DOMAIN ledger |-> JsonObject(ledger[fn])]

\* json.load: a number with a point is a float, any other number an int.
PyValue(jv) ==
  CASE jv.j = "number" ->
         IF \E i \in 1..Len(jv.t) : jv.t[i] = "." THEN PyFloat(jv.t) ELSE PyInt(jv.t)
    [] jv.j = "string" -> PyStr(jv.t)
    [] jv.j = "null"   -> PyNone
    [] jv.j = "array"  -> PyList(jv.t)

JsonLoad(doc) == [fn \in DOMAIN doc |-> [key \in DOMAIN doc[fn] |-> PyValue(doc[fn][key])]]

\* The file holds its object's members in the order they were written in.
NoFile == [exists |-> FALSE, doc |-> EmptyMap, order |-> <<>>]

FileOf(ledger, ord) == [exists |-> TRUE, doc |-> JsonDump(ledger), order |-> ord]

\* __init__: the map of the file when json_file exists, the empty map otherwise.
LoadedLedger(file) == IF file.exists THEN JsonLoad(file.doc) ELSE EmptyMap

LoadedOrder(file) == IF file.exists THEN file.order ELSE <<>>

-----------------------------------------------------------------------------
(* Admission.  A memory state is [jobs, pf, order, file, out]: the job list, *)
(* the params-filename map and the order of its keys, the ledger file and   *)
(* how the last call ended: "ok", "raised" (an exception), or what it       *)
(* reported before it returned early.                                       *)

Mem(j, pf, ord, file, out) ==
  [jobs |-> j, pf |-> pf, order |-> ord, file |-> file, out |-> out]

update_params_filename_keep(m, p, filename) ==
  LET pf  == IF filename \in DOMAIN m.pf THEN m.pf ELSE Put(m.pf, filename, p)
      ord == IF filename \in DOMAIN m.pf THEN m.order ELSE Append(m.order, filename)
  IN  [m EXCEPT !.pf = pf, !.order = ord, !.file = FileOf(pf, ord)]

\* update_params_filename: set the entry (a new key goes last, a key that is
\* there keeps its place), then rewrite the whole file.
update_params_filename(m, p, filename) ==
  LET pf  == Put(m.pf, filename, p)
      ord == IF filename \in DOMAIN m.pf THEN m.order ELSE Append(m.order, filename)
  IN  [m EXCEPT !.pf = pf, !.order = ord, !.file = FileOf(pf, ord)]

\* A job is dict(params) with its filename, kept as the pair of the two.
Job(p, filename) == [params |-> p, filename |-> filename]

add_job_unvalidated(m, p) ==
  LET filename == generate_mat_name(p)
  IN  IF filename = Raised THEN [m EXCEPT !.out = "raised"]
      ELSE LET m2 == update_params_filename(m, p, filename)
           IN  [m2 EXCEPT !.jobs = Append(m2.jobs, Job(p, filename)), !.out = "ok"]

add_job_once(m, p) ==
  IF \E par \in params : par \notin DOMAIN p THEN [m EXCEPT !.out = "missing"]
  ELSE LET filename == generate_mat_name(p)
       IN  IF filename = Raised THEN [m EXCEPT !.out = "raised"]
           ELSE LET m2 == update_params_filename(m, p, filename)
                IN  IF filename \in DOMAIN m.pf THEN [m2 EXCEPT !.out = "ok"]
                    ELSE [m2 EXCEPT !.jobs = Append(m2.jobs, Job(p, filename)),
                                    !.out = "ok"]

add_job(m, p) ==
  IF \E par \in params : par \notin DOMAIN p THEN [m EXCEPT !.out = "missing"]
  ELSE LET filename == generate_mat_name(p)
       IN  IF filename = Raised THEN [m EXCEPT !.out = "raised"]
           ELSE LET m2 == update_params_filename(m, p, filename)
                IN  [m2 EXCEPT !.jobs = Append(m2.jobs, Job(p, filename)),
                               !.out = "ok"]

-----------------------------------------------------------------------------
(* The descriptor file: csv.DictReader and load_job_params *)

NoCsv == [exists |-> FALSE, header |-> <<>>, rows |-> <<>>]

Csv(header, rows) == [exists |-> TRUE, header |-> header, rows |-> rows]

\* The dict csv.DictReader makes of a row: each column name maps to the cell of
\* its last column, to None where the row is short, and the cells past the
\* header are listed under the key None.
RowDict(header, row) ==
  LET last(key) == CHOOSE i \in 1..Len(header) :
                     /\ header[i] = key
                     /\ \A j \in 1..Len(header) : header[j] = key => j <= i
      named == [key \in {header[i] : i \in 1..Len(header)} |->
                  IF last(key) <= Len(row) THEN PyStr(row[last(key)]) ELSE PyNone]
  IN  IF Len(row) > Len(header)
      THEN Put(named, NoneKey, PyList(SubSeq(row, Len(header) + 1, Len(row))))
      ELSE named

\* The loop of load_job_params: add_job for each row that is not empty, until
\* one raises.
RECURSIVE AddRows(_, _, _)
AddRows(m, header, rows) ==
  IF rows = <<>> THEN [m EXCEPT !.out = "ok"]
  ELSE IF Head(rows) = <<>> THEN AddRows(m, header, Tail(rows))
  ELSE LET m2 == add_job(m, RowDict(header, Head(rows)))
       IN  IF m2.out = "raised" THEN m2 ELSE AddRows(m2, header, Tail(rows))

HeaderLacks(header) == ~(params \subseteq {header[i] : i \in 1..Len(header)})

\* set(reader.fieldnames) != self.params
HeaderMismatch(header) == {header[i] : i \in 1..Len(header)} # params

load_job_params(m, csv) ==
  IF ~csv.exists THEN [m EXCEPT !.out = "not found"]
  ELSE IF HeaderMismatch(csv.header) THEN [m EXCEPT !.out = "header"]
  ELSE AddRows(m, csv.header, csv.rows)

-----------------------------------------------------------------------------
(* The script and the engine *)

NoScript == [exists |-> FALSE, batch |-> <<>>]

write_m_file_last(j, script) ==
  IF Len(j) = 0 THEN script ELSE [exists |-> TRUE, batch |-> <<j[Len(j)]>>]

\* write_m_file: nothing is written for an empty job list; otherwise the
\* script holds every job of the list.
write_m_file(j, script) ==
  IF Len(j) = 0 THEN script ELSE [exists |-> TRUE, batch |-> j]

EngineCalledAnyJobs(j, script) == script.exists

\* run_jobs calls the engine when the job list is not empty and m_file exists.
EngineCalled(j, script) == Len(j) # 0 /\ script.exists

\* What run_jobs reports.
RunOutcome(j, script) ==
  IF Len(j) = 0 THEN "no jobs" ELSE IF ~script.exists THEN "not found" ELSE "ok"

Blobs == {"b1", "b2"}

FloatNum(f) == IF f.neg THEN 0 - f.mag ELSE f.mag

\* The VfAfl the script saves for a job: [VfAglm] unless NumAgl > 1, and then
\* NumAgl random parts of VfAglm.
VfAflOf(job) ==
  LET n == FloatOf(job.params["NumAgl"])
  IN  IF FloatNum(n) > Scale
      THEN PyList([i \in 1..IntOfFloat(n) |-> "r"])
      ELSE PyList(<<FloatPart(FloatOf(job.params["VfAglm"]))>>)

LastOf(batch, n, fn) ==
  CHOOSE i \in 1..n : /\ batch[i].filename = fn
                      /\ \A j \in 1..n : batch[j].filename = fn => j <= i

\* The files in data_dir after the engine has run the first n iterations of the
\* script's loop, content[i] being the MS of iteration i.
EngineArtifacts(art, batch, content, n) ==
  LET written == {batch[i].filename : i \in 1..n}
  IN  [fn \in DOMAIN art \cup written |->
         IF fn \in written THEN content[LastOf(batch, n, fn)] ELSE art[fn]]

EngineAux(auxv, batch, n) ==
  LET written == {batch[i].filename : i \in 1..n}
  IN  [fn \in DOMAIN auxv \cup written |->
         IF fn \in written THEN VfAflOf(batch[LastOf(batch, n, fn)]) ELSE auxv[fn]]

IsPrefix(s, t) == Len(s) <= Len(t) /\ SubSeq(t, 1, Len(s)) = s

-----------------------------------------------------------------------------
(* update_VfAfl and remove_duplicates *)

\* The ledger file after update_VfAfl or remove_duplicates: json.dump is the
\* statement after the loops, so it runs only when they are done.
DumpedAlways(file, pf, ord, done) == FileOf(pf, ord)

Dumped(file, pf, ord, done) == IF done THEN FileOf(pf, ord) ELSE file

Enriched(pf, fns, auxv) ==
  [fn \in DOMAIN pf |-> IF fn \in fns THEN Put(pf[fn], "VfAfl", auxv[fn]) ELSE pf[fn]]

\* The keys update_VfAfl reaches: all of them, or those before the first whose
\* VfAfl file loadmat does not find.
Reached(ord, auxv) ==
  {ord[i] : i \in {i \in 1..Len(ord) : \A j \in 1..i : ord[j] \in DOMAIN auxv}}

Group(pf, art, ms) == {fn \in DOMAIN pf : art[fn] = ms}

has_dup(pf, art) == {ms \in Blobs : Cardinality(Group(pf, art, ms)) > 1}

Index(ord, fn) == CHOOSE i \in 1..Len(ord) : ord[i] = fn

RECURSIVE Filter(_, _)
Filter(ord, gone) ==
  IF ord = <<>> THEN <<>>
  ELSE IF Head(ord) \in gone THEN Filter(Tail(ord), gone)
  ELSE <<Head(ord)>> \o Filter(Tail(ord), gone)

\* The sort key float(params_filename[x]['VfFree']) can be computed.
KeyOk(pf, fn) == "VfFree" \in DOMAIN pf[fn] /\ FloatOf(pf[fn]["VfFree"]).ok

SortKey(pf, fn) == FloatNum(FloatOf(pf[fn]["VfFree"]))

FirstLargest(pf, ord, g) ==
  CHOOSE fn \in g : \A other \in g : SortKey(pf, fn) >= SortKey(pf, other)

\* The file that is first after all_ms[ms].sort(key=...): the sort is stable
\* and the list is in the order of the dict, so it is the earliest key among
\* those of the smallest VfFree.
First(pf, ord, g) ==
  CHOOSE fn \in g :
    \A other \in g :
      \/ SortKey(pf, fn) < SortKey(pf, other)
      \/ SortKey(pf, fn) = SortKey(pf, other) /\ Index(ord, fn) <= Index(ord, other)

\* The keys deleted for the microstructures in dups: all_ms[ms][1:] of each.
Deleted(pf, ord, art, dups) ==
  UNION {Group(pf, art, ms) \ {First(pf, ord, Group(pf, art, ms))} : ms \in dups}

-----------------------------------------------------------------------------
(* Inputs *)

Example ==
  [ParRu  |-> PyInt(<<"8">>),            ParRv  |-> PyFloat(<<"1", ".", "5">>),
   pix    |-> PyInt(<<"4", "0", "0">>),  NumAgl |-> PyInt(<<"1">>),
   VfAglm |-> PyFloat(<<"0", ".", "1">>),
   VfFree |-> PyFloat(<<"0", ".", "0", "2">>),
   scale  |-> PyInt(<<"1">>),            seed   |-> PyInt(<<"7">>)]

NoSeed == Without([Example EXCEPT !["pix"] = PyStr(<<"4", "x">>)], {"seed"})

BadPix == [Example EXCEPT !["pix"] = PyStr(<<"4", "x">>)]

ParamInputs == {Example, NoSeed, BadPix}

Header == <<"seed", "scale", "VfFree", "VfAglm", "NumAgl", "pix", "ParRv", "ParRu">>

\* A row that has the naming fields of Example, and one of another name.
RowOne == <<<<"7">>, <<"1", ".", "0">>, <<" ", ".", "0", "2">>, <<"0", ".", "1", "0">>,
            <<"1">>, <<"4", "0", "0">>, <<"1", ".", "9">>, <<"8">>>>

RowThree == <<<<"7">>, <<"1">>, <<"0", ".", "0", "3">>, <<"0", ".", "1">>,
              <<"3">>, <<"4", "0", "0">>, <<"1", ".", "5">>, <<"8">>>>

\* A row that ends with a comma has one more cell than the header.
CsvGood == Csv(Header, <<RowOne, <<>>, Append(RowThree, <<>>)>>)

\* A header with a ninth column beside the required eight.
CsvExtra == Csv(Append(Header, "note"), <<Append(RowOne, <<"x">>), Append(RowThree, <<"x">>)>>)

\* A header that lacks seed and names VfFree twice.
CsvNoSeed == Csv(Append(Tail(Header), "VfFree"), <<RowOne, RowThree>>)

\* A short row, first or second: its ParRu is None.
CsvShortRow == Csv(Header, <<SubSeq(RowOne, 1, 7), RowThree>>)

CsvMidway == Csv(Header, <<RowThree, SubSeq(RowOne, 1, 7)>>)

CsvInputs == {NoCsv, CsvGood, CsvExtra, CsvNoSeed, CsvShortRow}

\* A ledger file edited by hand: two entries, the first without its VfFree,
\* and their artifacts, of different content.
Five == [Example EXCEPT !["VfFree"] = PyFloat(<<"0", ".", "0", "5">>)]

Six == [Example EXCEPT !["VfFree"] = PyFloat(<<"0", ".", "0", "6">>)]

EditedLedger ==
  Put(Put(EmptyMap, generate_mat_name(Five), Without(Five, {"VfFree"})),
      generate_mat_name(Six), Six)

EditedArtifacts ==
  Put(Put(EmptyMap, generate_mat_name(Five), "b1"), generate_mat_name(Six), "b2")

-----------------------------------------------------------------------------
(* The state after construction *)

Max(a, b) == IF a >= b THEN a ELSE b

\* microstructure_gen(json_file, data_dir): __init__ in a directory that holds
\* the ledger file `file`, the script `script` and the artifacts of the ledger's
\* entries, ms[fn] being the content of the artifact fn.
Constructed(file, script, ms) ==
  /\ json_file = file
  /\ params_filename = LoadedLedger(file)
  /\ order = LoadedOrder(file)
  /\ startup = params_filename
  /\ jobs = <<>>
  /\ m_file = script
  /\ artifacts = ms
  /\ aux = [fn \in DOMAIN ms |-> PyList(<<"0.1">>)]
  /\ lastOp = "__init__" /\ outcome = "ok"
  /\ engine = 0 /\ removed = {} /\ clean = TRUE
  /\ nAdmitted = 0 /\ cycled = 0

\* The two ParameterSets of the namer's specification.
Named(p) ==
  /\ pa = p /\ pb = p
  /\ na = generate_mat_name(p) /\ nb = generate_mat_name(p)
  /\ edits = 0

\* A new directory.
InitNew == Constructed(NoFile, NoScript, EmptyMap)

\* A directory an earlier session has used: its script is still there, and its
\* ledger file has been edited by hand since.
InitUsed ==
  Constructed(FileOf(EditedLedger, <<generate_mat_name(Five), generate_mat_name(Six)>>),
              [exists |-> TRUE, batch |-> <<Job(Example, generate_mat_name(Example))>>],
              EditedArtifacts)

-----------------------------------------------------------------------------
(* The operations *)

\* The successful add_job calls of load_job_params(csv).
RECURSIVE Admissions(_, _)
Admissions(header, rows) ==
  IF rows = <<>> THEN 0
  ELSE IF Head(rows) = <<>> THEN Admissions(header, Tail(rows))
  ELSE IF generate_mat_name(RowDict(header, Head(rows))) = Raised THEN 0
  ELSE 1 + Admissions(header, Tail(rows))

CsvAdmissions(csv) ==
  IF csv.exists /\ {csv.header[i] : i \in 1..Len(csv.header)} = params
  THEN Admissions(csv.header, csv.rows) ELSE 0

AddJob(p) ==
  /\ Len(jobs) < MaxJobs
  /\ LET m == add_job(Mem(jobs, params_filename, order, json_file, "ok"), p)
     IN  /\ jobs' = m.jobs
         /\ params_filename' = m.pf
         /\ order' = m.order
         /\ json_file' = m.file
         /\ outcome' = m.out
         /\ clean' = (clean /\ m.out # "raised")
  /\ nAdmitted' = nAdmitted + (IF outcome' = "ok" THEN 1 ELSE 0)
  /\ lastOp' = "add_job"
  /\ engine' = 0 /\ removed' = {}
  /\ UNCHANGED <<m_file, artifacts, aux, startup, cycled, pa, pb, na, nb, edits>>

LoadJobParams(csv) ==
  /\ LET m == load_job_params(Mem(jobs, params_filename, order, json_file, "ok"), csv)
     IN  /\ Len(m.jobs) <= MaxJobs
         /\ jobs' = m.jobs
         /\ params_filename' = m.pf
         /\ order' = m.order
         /\ json_file' = m.file
         /\ outcome' = m.out
         /\ clean' = (clean /\ m.out # "raised")
  /\ nAdmitted' = nAdmitted + CsvAdmissions(csv)
  /\ lastOp' = "load_job_params"
  /\ engine' = 0 /\ removed' = {}
  /\ UNCHANGED <<m_file, artifacts, aux, startup, cycled, pa, pb, na, nb, edits>>

WriteMFile ==
  /\ m_file' = write_m_file(jobs, m_file)
  /\ outcome' = IF Len(jobs) = 0 THEN "no jobs" ELSE "ok"
  /\ lastOp' = "write_m_file"
  /\ engine' = 0 /\ removed' = {}
  /\ UNCHANGED <<jobs, params_filename, order, json_file, artifacts, aux, clean,
                 nAdmitted, startup, cycled, pa, pb, na, nb, edits>>

\* What the engine does with a script is not this program's: it ends at once
\* (n = 0) or runs the whole loop, the MS of each iteration being any content.
Iterations(script) == {0, Len(script.batch)}

\* run_jobs(m_file) on the job list j: the engine runs n iterations of the
\* script, or is not called at all.
RunStep(j, script, n, content) ==
  IF EngineCalled(j, script)
  THEN /\ artifacts' = EngineArtifacts(artifacts, script.batch, content, n)
       /\ aux' = EngineAux(aux, script.batch, n)
       /\ engine' = 1
       /\ cycled' = IF IsPrefix(script.batch, j)
                    THEN Max(cycled, Len(script.batch)) ELSE cycled
  ELSE /\ n = 0
       /\ engine' = 0
       /\ UNCHANGED <<artifacts, aux, cycled>>

RunJobs ==
  /\ \E n \in Iterations(m_file) : \E content \in [1..n -> Blobs] :
       RunStep(jobs, m_file, n, content)
  /\ outcome' = RunOutcome(jobs, m_file)
  /\ lastOp' = "run_jobs"
  /\ removed' = {}
  /\ UNCHANGED <<jobs, params_filename, order, json_file, m_file, clean, nAdmitted,
                 startup, pa, pb, na, nb, edits>>

\* load_and_run: the three calls in a row; an exception of the first ends it.
LoadAndRun(csv) ==
  /\ LET m == load_job_params(Mem(jobs, params_filename, order, json_file, "ok"), csv)
         script == write_m_file(m.jobs, m_file)
     IN  /\ Len(m.jobs) <= MaxJobs
         /\ jobs' = m.jobs
         /\ params_filename' = m.pf
         /\ order' = m.order
         /\ json_file' = m.file
         /\ clean' = (clean /\ m.out # "raised")
         /\ IF m.out = "raised"
            THEN /\ outcome' = "raised"
                 /\ engine' = 0
                 /\ UNCHANGED <<m_file, artifacts, aux, cycled>>
            ELSE /\ m_file' = script
                 /\ outcome' = RunOutcome(m.jobs, script)
                 /\ \E n \in Iterations(script) : \E content \in [1..n -> Blobs] :
                      RunStep(m.jobs, script, n, content)
  /\ nAdmitted' = nAdmitted + CsvAdmissions(csv)
  /\ lastOp' = "load_and_run"
  /\ removed' = {}
  /\ UNCHANGED <<startup, pa, pb, na, nb, edits>>

\* update_VfAfl: loadmat raises at the first entry without its VfAfl file; the
\* entries before it are enriched in memory and the file is not written.
UpdateVfAfl ==
  /\ LET done == Reached(order, aux)
     IN  /\ params_filename' = Enriched(params_filename, done, aux)
         /\ json_file' = Dumped(json_file, params_filename', order,
                                done = DOMAIN params_filename)
         /\ outcome' = IF done = DOMAIN params_filename THEN "ok" ELSE "raised"
         /\ clean' = (clean /\ done = DOMAIN params_filename)
  /\ lastOp' = "update_VfAfl"
  /\ engine' = 0 /\ removed' = {}
  /\ UNCHANGED <<jobs, order, m_file, artifacts, aux, nAdmitted, startup, cycled,
                 pa, pb, na, nb, edits>>

\* remove_duplicates.  loadmat raises for an entry without its artifact, before
\* anything is deleted.  The microstructures of has_dup are taken in the order
\* of a set of bytes (any order here); the sort raises at the first that has an
\* entry without a usable VfFree, after the deletions for those before it.  The
\* file is written once, after the loop.
RemoveDuplicates ==
  /\ LET pf   == params_filename
         dups == IF DOMAIN pf \subseteq DOMAIN artifacts THEN has_dup(pf, artifacts) ELSE {}
         bad  == {ms \in dups : \E fn \in Group(pf, artifacts, ms) : ~KeyOk(pf, fn)}
     IN  IF ~(DOMAIN pf \subseteq DOMAIN artifacts)
         THEN /\ outcome' = "raised"
              /\ clean' = FALSE
              /\ removed' = {}
              /\ UNCHANGED <<params_filename, order, json_file>>
         ELSE IF bad # {}
         THEN /\ \E before \in SUBSET (dups \ bad) :
                    removed' = Deleted(pf, order, artifacts, before)
              /\ params_filename' = Without(pf, removed')
              /\ order' = Filter(order, removed')
              /\ json_file' = Dumped(json_file, params_filename', order', FALSE)
              /\ outcome' = "raised"
              /\ clean' = FALSE
         ELSE /\ removed' = Deleted(pf, order, artifacts, dups)
              /\ params_filename' = Without(pf, removed')
              /\ order' = Filter(order, removed')
              /\ json_file' = Dumped(json_file, params_filename', order', TRUE)
              /\ outcome' = "ok"
              /\ clean' = clean
  /\ lastOp' = "remove_duplicates"
  /\ engine' = 0
  /\ UNCHANGED <<jobs, m_file, artifacts, aux, nAdmitted, startup, cycled,
                 pa, pb, na, nb, edits>>

BatchInputs == {NoCsv, CsvGood}

Next ==
  \/ \E p \in ParamInputs : AddJob(p)
  \/ \E csv \in CsvInputs : LoadJobParams(csv)
  \/ WriteMFile
  \/ RunJobs
  \/ \E csv \in BatchInputs : LoadAndRun(csv)
  \/ UpdateVfAfl
  \/ RemoveDuplicates

Init == (InitNew \/ InitUsed) /\ Named(Example)

Spec == Init /\ [][Next]_vars

\* Admission only: add_job and load_job_params on a fresh instance; add_job
\* is also given the mappings of text that a descriptor row makes.
AdmitInputs == ParamInputs \cup {RowDict(Header, RowOne), RowDict(Header, RowThree)}

NextAdmit ==
  \/ \E p \in AdmitInputs : AddJob(p)
  \/ \E csv \in CsvInputs \cup {CsvMidway} : LoadJobParams(csv)

SpecAdmit == Init /\ [][NextAdmit]_vars

-----------------------------------------------------------------------------
(* The namer alone: pa is changed field by field, pb is an earlier pa, and   *)
(* na, nb are the names generate_mat_name gives them.                        *)

NamerValues ==
  {PyInt(<<"8">>), PyFloat(<<"1", ".", "5">>), PyStr(<<"1", ".", "9">>),
   PyStr(<<" ", "8">>), PyStr(<<"-", "0">>), PyFloat(<<"0", ".", "0">>),
   PyStr(<<"x">>)}

SetField(f, v) ==
  /\ edits < MaxEdits
  /\ pa' = [pa EXCEPT ![f] = v]
  /\ na' = generate_mat_name(pa')
  /\ edits' = edits + 1
  /\ UNCHANGED <<pb, nb>>
  /\ UNCHANGED progVars

Keep ==
  /\ pb' = pa
  /\ nb' = generate_mat_name(pb')
  /\ UNCHANGED <<pa, na, edits>>
  /\ UNCHANGED progVars

InitNamer == InitNew /\ (Named(Example) \/ Named(RowDict(Header, RowOne)))

NextNamer ==
  \/ \E f \in params : \E v \in NamerValues : SetField(f, v)
  \/ Keep

SpecNamer == InitNamer /\ [][NextNamer]_vars

-----------------------------------------------------------------------------
(* The properties *)

\* C1: add_job with a mapping that lacks a required field reports it and
\* returns without raising, and the in-memory ledger, the ledger file and the
\* job list are as they were.
C1_MissingField ==
  [][\A p \in ParamInputs :
       (~(params \subseteq DOMAIN p) /\ AddJob(p))
         => /\ outcome' = "missing"
            /\ UNCHANGED <<params_filename, order, json_file, jobs>>]_vars

C1_Rejected ==
  /\ lastOp = "add_job" /\ outcome = "missing"
  /\ jobs # <<>> /\ DOMAIN params_filename # {} /\ json_file.exists

C3_RoundTrip == clean => LoadedLedger(json_file) = params_filename

\* C4: a completed remove_duplicates leaves, of every group of entries whose
\* artifacts have the same content, exactly one entry, one of the smallest
\* VfFree of the group; an entry whose artifact is alone in its content stays;
\* the entries that stay are unchanged, in memory and in the file.
C4_OnePerGroup ==
  [][(lastOp' = "remove_duplicates" /\ outcome' = "ok")
       => /\ \A ms \in Blobs :
               IF Cardinality(Group(params_filename, artifacts, ms)) > 1
               THEN \E keep \in Group(params_filename, artifacts, ms) :
                      /\ DOMAIN params_filename' \cap Group(params_filename, artifacts, ms)
                           = {keep}
                      /\ \A other \in Group(params_filename, artifacts, ms) :
                           SortKey(params_filename, keep) <= SortKey(params_filename, other)
               ELSE Group(params_filename, artifacts, ms) \subseteq DOMAIN params_filename'
          /\ DOMAIN params_filename' \subseteq DOMAIN params_filename
          /\ \A fn \in DOMAIN params_filename' : params_filename'[fn] = params_filename[fn]
          /\ DOMAIN LoadedLedger(json_file') = DOMAIN params_filename']_vars

\* A group has been pruned and another entry, alone in its content, is there.
C4_Pruned ==
  /\ lastOp = "remove_duplicates" /\ outcome = "ok"
  /\ removed # {}
  /\ \E ms \in Blobs : Cardinality(Group(params_filename, artifacts, ms)) = 1
  /\ Cardinality(DOMAIN params_filename) >= 2

\* C5: load_job_params on a file whose header, as a set, is not the required
\* field set admits nothing: the job list, the in-memory ledger and the ledger
\* file are as they were.
C5_HeaderMismatch ==
  [][\A csv \in CsvInputs :
       (/\ csv.exists
        /\ {csv.header[i] : i \in 1..Len(csv.header)} # params
        /\ LoadJobParams(csv))
         => /\ outcome' = "header"
            /\ UNCHANGED <<jobs, params_filename, order, json_file>>]_vars

C5_Aborted ==
  /\ lastOp = "load_job_params" /\ outcome = "header"
  /\ jobs # <<>> /\ DOMAIN params_filename # {}

C7_EarlyReturns ==
  [][/\ (lastOp' = "write_m_file" /\ jobs = <<>>)
          => (m_file' = m_file /\ outcome' = "no jobs")
     /\ (lastOp' = "run_jobs" /\ jobs = <<>>)
          => (engine' = 0 /\ outcome' = "no jobs" /\ UNCHANGED <<artifacts, aux>>)
     /\ (lastOp' = "run_jobs" /\ jobs # <<>> /\ ~m_file.exists)
          => (engine' = 0 /\ outcome' = "not found" /\ UNCHANGED <<artifacts, aux>>)
     /\ engine' = 1 => (jobs' # <<>> /\ m_file'.exists)]_vars

\* run_jobs has returned early for an empty job list, the script being there.
C7_NotInvoked ==
  /\ lastOp = "run_jobs" /\ outcome = "no jobs"
  /\ m_file.exists /\ engine = 0

\* C8 (as amended): a remove_duplicates that raises leaves the ledger file as
\* it was, also when it has deleted entries of the in-memory ledger.
C8_FileUntouched ==
  [][(lastOp' = "remove_duplicates" /\ outcome' = "raised")
       => json_file' = json_file]_vars

\* The pass has raised after deleting some of the entries a completed pass
\* deletes; the file still has them.
C8_PrunedInMemoryOnly ==
  /\ lastOp = "remove_duplicates" /\ outcome = "raised"
  /\ removed # {}
  /\ removed \subseteq DOMAIN LoadedLedger(json_file)
  /\ removed \cap DOMAIN params_filename = {}

\* C8 (as stated): a remove_duplicates that raises after deleting entries
\* leaves a ledger file that has lost some of them.
C8_FilePartlyPruned ==
  [][(lastOp' = "remove_duplicates" /\ outcome' = "raised" /\ removed' # {})
       => ~(removed' \subseteq DOMAIN LoadedLedger(json_file'))]_vars

\* C9 (as amended): no operation takes a job off the job list, and a script
\* that is written holds every job of the list, those of earlier cycles too.
C9_JobsKept ==
  [][/\ IsPrefix(jobs, jobs')
     /\ (lastOp' \in {"write_m_file", "load_and_run"} /\ outcome' # "raised" /\ jobs' # <<>>)
          => (m_file'.exists /\ m_file'.batch = jobs')]_vars

\* A script written after a cycle holds the jobs of that cycle and a later one.
C9_SecondCycle ==
  /\ lastOp = "write_m_file" /\ outcome = "ok"
  /\ cycled > 0 /\ Len(jobs) > cycled
  /\ m_file.batch = jobs

\* C9 (as stated): the jobs a write_m_file / run_jobs cycle has completed for
\* are not in the script a later write_m_file writes.
C9_JobsDropped ==
  [][(lastOp' = "write_m_file" /\ outcome' = "ok" /\ cycled > 0)
       => \A i \in 1..cycled : \A k \in 1..Len(m_file'.batch) :
            m_file'.batch[k] # jobs[i]]_vars

====
